---------------------------- MODULE Spec2Model ----------------------------
(***************************************************************************)
(* Model of scripts/generate-favicons.py: one run of generate_favicons()   *)
(* under the __main__ guard, step by step, over a file system made of the  *)
(* public directory (source logo and the seven outputs) and the app        *)
(* directory.  Images are small pixel arrays; the Pillow calls the script  *)
(* makes (convert, new, paste, split, copy, resize, save) are operators.   *)
(***************************************************************************)
EXTENDS Integers, Sequences, FiniteSets, TLC

(***************************************************************************)
(* Bounds of the model (not program constants).                            *)
(***************************************************************************)
\* A source image holds at most MaxPixels pixels (width * height).
MaxPixels == 2

(***************************************************************************)
(* Configuration, lines 12-25.                                             *)
(***************************************************************************)
\* FAVICON_SIZES, in declaration order (a dict keeps insertion order).
FAVICON_SIZES ==
    << [name |-> "favicon-16x16.png",          size |-> 16],
       [name |-> "favicon-32x32.png",          size |-> 32],
       [name |-> "apple-touch-icon.png",       size |-> 180],
       [name |-> "android-chrome-192x192.png", size |-> 192],
       [name |-> "android-chrome-512x512.png", size |-> 512] >>

ico_name == "favicon.ico"

manifest_name == "site.webmanifest"

ico_size == 32

\* background_color_rgba, line 48
background_color_rgba == <<6, 57, 64, 255>>

\* The file names the run writes into PUBLIC_DIR, in program order.
WriteOrder ==
    [i \in 1..Len(FAVICON_SIZES) |-> FAVICON_SIZES[i].name]
        \o <<ico_name, manifest_name>>

OutputNames == {WriteOrder[i] : i \in 1..Len(WriteOrder)}

\* Files of APP_DIR the model tracks.
AppNames == {ico_name, "layout.tsx"}

(***************************************************************************)
(* File contents.                                                          *)
(***************************************************************************)
Absent == [fmt |-> "absent"]

\* What an earlier, unrelated generation left behind.
Stale == [fmt |-> "stale"]

\* A file opened for writing whose content never arrived.
Truncated == [fmt |-> "truncated"]

(***************************************************************************)
(* Images: [mode, w, h, px], px the pixels in row order, each a tuple of   *)
(* the mode's bands (a palette index for mode P).                          *)
(***************************************************************************)
NoImage == [mode |-> "none"]

\* The palette of a mode-P source: RGBA entries (tRNS transparency).
Palette == << <<0, 0, 0, 0>>, <<200, 100, 0, 255>> >>

\* The pixel values the model draws a source image from, per mode.
PixelsOf(mode) ==
    CASE mode = "RGBA" -> { <<200, 100, 0, 0>>, <<200, 100, 0, 128>>,
                            <<200, 100, 0, 255>> }
      [] mode = "RGB"  -> { <<200, 100, 0>> }
      [] mode = "LA"   -> { <<255, 0>>, <<100, 128>> }
      [] mode = "L"    -> { <<0>>, <<255>> }
      [] mode = "P"    -> { <<1>>, <<2>> }

Modes == {"RGBA", "RGB", "LA", "L", "P"}

Shapes == {wh \in (1..MaxPixels) \X (1..MaxPixels) : wh[1] * wh[2] <= MaxPixels}

SourceImages ==
    UNION { UNION { { [mode |-> m, w |-> wh[1], h |-> wh[2], px |-> p] :
                        p \in [1..(wh[1] * wh[2]) -> PixelsOf(m)] } :
                    wh \in Shapes } :
            m \in Modes }

\* Image.convert('RGBA') on one pixel of the given mode.
ConvertPixelRGBA(mode, p) ==
    CASE mode = "RGBA" -> p
      [] mode = "RGB"  -> <<p[1], p[2], p[3], 255>>
      [] mode = "LA"   -> <<p[1], p[1], p[1], p[2]>>
      [] mode = "L"    -> <<p[1], p[1], p[1], 255>>
      [] mode = "P"    -> Palette[p[1]]

\* Image.convert('RGBA')
ConvertRGBA(img) ==
    [mode |-> "RGBA", w |-> img.w, h |-> img.h,
     px |-> [i \in 1..Len(img.px) |-> ConvertPixelRGBA(img.mode, img.px[i])]]

\* Normalize that converts palette images only and leaves the grayscale
\* branch out.
NormalizePaletteOnly(img) ==
    IF img.mode # "RGBA"
    THEN IF img.mode = "P" THEN ConvertRGBA(img)
         ELSE IF img.mode \in {"LA", "L"} THEN img
         ELSE ConvertRGBA(img)
    ELSE img

\* Lines 39-45: every mode other than RGBA is converted, whichever branch.
Normalize(img) ==
    IF img.mode # "RGBA"
    THEN IF img.mode = "P" THEN ConvertRGBA(img)
         ELSE IF img.mode \in {"LA", "L"} THEN ConvertRGBA(img)
         ELSE ConvertRGBA(img)
    ELSE img

\* Pillow's 8-bit blend of one band: round((in1*(255-mask) + in2*mask)/255).
Blend(mask, in1, in2) ==
    LET tmp == in1 * (255 - mask) + in2 * mask + 128
    IN  ((tmp \div 256) + tmp) \div 256

\* The colour bands of a pixel as pasted into an RGB image.
AsRGB(mode, p) ==
    IF mode \in {"RGBA", "RGB"} THEN <<p[1], p[2], p[3]>>
    ELSE IF mode \in {"LA", "L"} THEN <<p[1], p[1], p[1]>>
    ELSE <<Palette[p[1]][1], Palette[p[1]][2], Palette[p[1]][3]>>

\* img.split()[-1]: the last band of every pixel.
LastBand(img) == [i \in 1..Len(img.px) |-> img.px[i][Len(img.px[i])]]

\* Lines 51-52: Image.new('RGB', size, colour) then paste(img, mask=last band).
Composite(img) ==
    LET bg   == <<background_color_rgba[1], background_color_rgba[2],
                  background_color_rgba[3]>>
        mask == LastBand(img)
    IN  [mode |-> "RGB", w |-> img.w, h |-> img.h,
         px |-> [i \in 1..Len(img.px) |->
                    LET c == AsRGB(img.mode, img.px[i])
                    IN  <<Blend(mask[i], bg[1], c[1]),
                          Blend(mask[i], bg[2], c[2]),
                          Blend(mask[i], bg[3], c[3])>>]]

\* A resize that fits the longer side to size and keeps the aspect ratio
\* (what Image.thumbnail does).
ResizeKeepAspect(img, size) ==
    [mode |-> img.mode,
     w |-> IF img.w >= img.h THEN size ELSE (size * img.w) \div img.h,
     h |-> IF img.h >= img.w THEN size ELSE (size * img.h) \div img.w,
     lanczos |-> [w |-> img.w, h |-> img.h, px |-> img.px]]

\* Image.resize((size, size), LANCZOS): always square; the pixels are the
\* resampling of the input, a function of the input image alone.
Resize(img, size) ==
    [mode |-> img.mode, w |-> size, h |-> size,
     lanczos |-> [w |-> img.w, h |-> img.h, px |-> img.px]]

\* Image.save(path, "PNG", optimize=True): the encoded file.
PngFile(img) == [fmt |-> "PNG", mode |-> img.mode, w |-> img.w, h |-> img.h,
                 data |-> img.lanczos]

\* Image.save(path, format='ICO'): a single embedded image.
IcoFile(img) == [fmt |-> "ICO", mode |-> img.mode, w |-> img.w, h |-> img.h,
                 data |-> img.lanczos]


(***************************************************************************)
(* The manifest text, lines 86-107, as its tokens in order: JSON tokens    *)
(* and the whitespace between them (NL a line break, the rest spaces).     *)
(***************************************************************************)
NL == "\n"

Whitespace == {NL, " ", "  ", "    ", "      "}

Member(indent, key, value) == <<indent, key, ":", " ", value>>

\* One icon object the way the script lays it out: five lines.
IconLines(src, sizes) ==
    <<"    ", "{", NL>>
        \o Member("      ", "\"src\"", src) \o <<",", NL>>
        \o Member("      ", "\"sizes\"", sizes) \o <<",", NL>>
        \o Member("      ", "\"type\"", "\"image/png\"") \o <<NL>>
        \o <<"    ", "}">>

ManifestHead ==
    <<"{", NL>>
        \o Member("  ", "\"name\"", "\"Zendesk App Icon Generator\"") \o <<",", NL>>
        \o Member("  ", "\"short_name\"", "\"ZDK Icon Gen\"") \o <<",", NL>>
        \o Member("  ", "\"description\"",
                  "\"Generate compliant Zendesk app icon bundles\"") \o <<",", NL>>
        \o <<"  ", "\"icons\"", ":", " ", "[", NL>>

ManifestTail ==
    <<"  ", "]", ",", NL>>
        \o Member("  ", "\"theme_color\"", "\"#063940\"") \o <<",", NL>>
        \o Member("  ", "\"background_color\"", "\"#063940\"") \o <<",", NL>>
        \o Member("  ", "\"display\"", "\"standalone\"") \o <<",", NL>>
        \o Member("  ", "\"start_url\"", "\"/\"") \o <<NL>>
        \o <<"}", NL>>

\* A manifest whose icon list is generated from FAVICON_SIZES.
manifest_from_sizes ==
    ManifestHead
        \o IconLines("\"/favicon-16x16.png\"", "\"16x16\"") \o <<",", NL>>
        \o IconLines("\"/favicon-32x32.png\"", "\"32x32\"") \o <<",", NL>>
        \o IconLines("\"/apple-touch-icon.png\"", "\"180x180\"") \o <<",", NL>>
        \o IconLines("\"/android-chrome-192x192.png\"", "\"192x192\"") \o <<",", NL>>
        \o IconLines("\"/android-chrome-512x512.png\"", "\"512x512\"") \o <<NL>>
        \o ManifestTail

manifest_content ==
    ManifestHead
        \o IconLines("\"/android-chrome-192x192.png\"", "\"192x192\"") \o <<",", NL>>
        \o IconLines("\"/android-chrome-512x512.png\"", "\"512x512\"") \o <<NL>>
        \o ManifestTail

\* f.write(manifest_content): the file holds the text.
TextFile(text) == [fmt |-> "text", text |-> text]

(***************************************************************************)
(* State.                                                                  *)
(***************************************************************************)
VARIABLES
    sourceExists,   \* LOGO_PATH.exists()
    srcImg,         \* the image stored at LOGO_PATH
    publicDir,      \* PUBLIC_DIR: output file name -> content
    prevResult,     \* what generate_favicons returned in the run before this one
    appDir,         \* APP_DIR: file name -> content
    pc,             \* position of the run
    idx,            \* position of the PNG loop in FAVICON_SIZES
    img_original,   \* locals of generate_favicons
    img_rgb,
    img_rgba,
    ico_img,
    result,         \* what generate_favicons returned: "None", "True", "False"
    exitCode,       \* the process's exit status, -1 while it runs
    created,        \* the file names reported "Created", in order
    openHandles     \* file handles opened and not yet closed

vars == <<sourceExists, srcImg, publicDir, prevResult, appDir, pc, idx, img_original,
          img_rgb, img_rgba, ico_img, result, exitCode, created, openHandles>>

locals == <<img_original, img_rgb, img_rgba, ico_img>>

disk == <<sourceExists, srcImg, publicDir, appDir>>

AppDirInit ==
    [f \in AppNames |-> IF f = ico_name THEN Absent ELSE [fmt |-> "source"]]

Init ==
    /\ sourceExists \in BOOLEAN
    /\ srcImg \in (IF sourceExists THEN SourceImages ELSE {NoImage})
    /\ publicDir \in {[f \in OutputNames |-> Absent], [f \in OutputNames |-> Stale]}
    /\ prevResult = "None"
    /\ appDir = AppDirInit
    /\ pc = "start"
    /\ idx = 1
    /\ img_original = NoImage
    /\ img_rgb = NoImage
    /\ img_rgba = NoImage
    /\ ico_img = NoImage
    /\ result = "None"
    /\ exitCode = -1
    /\ created = <<>>
    /\ openHandles = {}

\* An exception leaves generate_favicons and reaches the except clause.
Raise ==
    /\ pc' = "handler"
    /\ UNCHANGED <<result, exitCode>>

\* What a write that fails leaves at its path: the file as it was (the open
\* failed) or a file cut short (the open succeeded, the content did not).
FailedWrite(old) == {old, Truncated}

\* ImageFile.load() on the opened file: Pillow may close the file once the
\* pixels are read, or keep it (formats it reads lazily); the script itself
\* never closes it.
HandlesAfterLoad(closed) ==
    IF closed THEN openHandles \ {"logo"} ELSE openHandles

\* CheckExists without its return: the error is printed and the run goes on.
CheckExistsNoReturn ==
    /\ pc = "start"
    /\ UNCHANGED prevResult
    /\ pc' = "open"
    /\ UNCHANGED <<disk, idx, locals, result, exitCode, created, openHandles>>

\* Lines 30-32
CheckExists ==
    /\ pc = "start"
    /\ UNCHANGED prevResult
    /\ IF sourceExists
       THEN /\ pc' = "open"
            /\ UNCHANGED result
       ELSE /\ pc' = "returned"
            /\ result' = "False"
    /\ UNCHANGED <<disk, idx, locals, exitCode, created, openHandles>>

\* Line 36: Image.open reads the header and keeps the file open.
OpenImage ==
    /\ pc = "open"
    /\ UNCHANGED prevResult
    /\ \E ok \in BOOLEAN :
          IF ok
          THEN /\ img_original' = srcImg
               /\ openHandles' = openHandles \cup {"logo"}
               /\ pc' = "normalize"
               /\ UNCHANGED <<result, exitCode>>
          ELSE /\ Raise
               /\ UNCHANGED <<img_original, openHandles>>
    /\ UNCHANGED <<disk, idx, img_rgb, img_rgba, ico_img, created>>

\* Lines 39-45: convert() loads the pixels first.
NormalizeImage ==
    /\ pc = "normalize"
    /\ UNCHANGED prevResult
    /\ IF img_original.mode # "RGBA"
       THEN \E ok \in BOOLEAN, closed \in BOOLEAN :
               IF ok
               THEN /\ img_original' = Normalize(img_original)
                    /\ openHandles' = HandlesAfterLoad(closed)
                    /\ pc' = "composite"
                    /\ UNCHANGED <<result, exitCode>>
               ELSE /\ Raise
                    /\ UNCHANGED <<img_original, openHandles>>
       ELSE /\ pc' = "composite"
            /\ UNCHANGED <<img_original, openHandles, result, exitCode>>
    /\ UNCHANGED <<disk, idx, img_rgb, img_rgba, ico_img, created>>

\* Lines 51-52.  img_original is still the image Image.open returned exactly
\* when the source was RGBA already; split() then loads the pixels.
CompositeImage ==
    /\ pc = "composite"
    /\ UNCHANGED prevResult
    /\ IF srcImg.mode = "RGBA"
       THEN \E ok \in BOOLEAN, closed \in BOOLEAN :
               IF ok
               THEN /\ img_rgb' = Composite(img_original)
                    /\ openHandles' = HandlesAfterLoad(closed)
                    /\ pc' = "copy"
                    /\ UNCHANGED <<result, exitCode>>
               ELSE /\ Raise
                    /\ UNCHANGED <<img_rgb, openHandles>>
       ELSE /\ img_rgb' = Composite(img_original)
            /\ pc' = "copy"
            /\ UNCHANGED <<openHandles, result, exitCode>>
    /\ UNCHANGED <<disk, idx, img_original, img_rgba, ico_img, created>>

\* Line 55
CopyImage ==
    /\ pc = "copy"
    /\ UNCHANGED prevResult
    /\ img_rgba' = img_original
    /\ pc' = "png"
    /\ idx' = 1
    /\ UNCHANGED <<disk, img_original, img_rgb, ico_img, result, exitCode,
                   created, openHandles>>

\* SavePng with a failed save skipped (caught inside the loop) instead of
\* ending the run.
SavePngSkipFailed ==
    /\ pc = "png"
    /\ UNCHANGED prevResult
    /\ idx <= Len(FAVICON_SIZES)
    /\ LET filename == FAVICON_SIZES[idx].name
           size     == FAVICON_SIZES[idx].size
           resized  == Resize(img_rgb, size)
       IN  \E ok \in BOOLEAN :
              IF ok
              THEN /\ publicDir' = [publicDir EXCEPT ![filename] = PngFile(resized)]
                   /\ created' = Append(created, filename)
              ELSE /\ \E left \in FailedWrite(publicDir[filename]) :
                         publicDir' = [publicDir EXCEPT ![filename] = left]
                   /\ UNCHANGED created
    /\ idx' = idx + 1
    /\ pc' = "png"
    /\ UNCHANGED <<sourceExists, srcImg, appDir, locals, openHandles, result,
                   exitCode>>

\* SavePng that keeps a file already at the path instead of overwriting it.
SavePngKeepExisting ==
    /\ pc = "png"
    /\ UNCHANGED prevResult
    /\ idx <= Len(FAVICON_SIZES)
    /\ LET filename == FAVICON_SIZES[idx].name
           size     == FAVICON_SIZES[idx].size
           resized  == Resize(img_rgb, size)
       IN  \E ok \in BOOLEAN :
              IF ok
              THEN /\ publicDir' =
                         IF publicDir[filename] = Absent
                         THEN [publicDir EXCEPT ![filename] = PngFile(resized)]
                         ELSE publicDir
                   /\ created' = Append(created, filename)
                   /\ idx' = idx + 1
                   /\ pc' = "png"
                   /\ UNCHANGED <<result, exitCode>>
              ELSE /\ \E left \in FailedWrite(publicDir[filename]) :
                         publicDir' = [publicDir EXCEPT ![filename] = left]
                   /\ Raise
                   /\ UNCHANGED <<created, idx>>
    /\ UNCHANGED <<sourceExists, srcImg, appDir, locals, openHandles>>

\* Lines 59-63: one iteration of the loop over FAVICON_SIZES.
SavePng ==
    /\ pc = "png"
    /\ UNCHANGED prevResult
    /\ idx <= Len(FAVICON_SIZES)
    /\ LET filename == FAVICON_SIZES[idx].name
           size     == FAVICON_SIZES[idx].size
           resized  == Resize(img_rgb, size)
       IN  \E ok \in BOOLEAN :
              IF ok
              THEN /\ publicDir' = [publicDir EXCEPT ![filename] = PngFile(resized)]
                   /\ created' = Append(created, filename)
                   /\ idx' = idx + 1
                   /\ pc' = "png"
                   /\ UNCHANGED <<result, exitCode>>
              ELSE /\ \E left \in FailedWrite(publicDir[filename]) :
                         publicDir' = [publicDir EXCEPT ![filename] = left]
                   /\ Raise
                   /\ UNCHANGED <<created, idx>>
    /\ UNCHANGED <<sourceExists, srcImg, appDir, locals, openHandles>>

\* Lines 68-73
ResizeIco ==
    /\ pc = "png"
    /\ UNCHANGED prevResult
    /\ idx > Len(FAVICON_SIZES)
    /\ LET r == Resize(img_rgba, ico_size)
       IN  ico_img' = IF r.mode # "RGBA" THEN [r EXCEPT !.mode = "RGBA"] ELSE r
    /\ pc' = "ico"
    /\ UNCHANGED <<disk, idx, img_original, img_rgb, img_rgba, result, exitCode,
                   created, openHandles>>

\* SaveIco with a failed save swallowed: the run goes on to the manifest.
SaveIcoSwallow ==
    /\ pc = "ico"
    /\ UNCHANGED prevResult
    /\ \E ok \in BOOLEAN :
          IF ok
          THEN /\ publicDir' = [publicDir EXCEPT ![ico_name] = IcoFile(ico_img)]
               /\ created' = Append(created, ico_name)
          ELSE /\ \E left \in FailedWrite(publicDir[ico_name]) :
                     publicDir' = [publicDir EXCEPT ![ico_name] = left]
               /\ UNCHANGED created
    /\ pc' = "manifest"
    /\ UNCHANGED <<sourceExists, srcImg, appDir, idx, locals, openHandles,
                   result, exitCode>>

\* SaveIco that also saves a copy into APP_DIR.
SaveIcoAlsoApp ==
    /\ pc = "ico"
    /\ UNCHANGED prevResult
    /\ \E ok \in BOOLEAN :
          IF ok
          THEN /\ publicDir' = [publicDir EXCEPT ![ico_name] = IcoFile(ico_img)]
               /\ appDir' = [appDir EXCEPT ![ico_name] = IcoFile(ico_img)]
               /\ created' = Append(created, ico_name)
               /\ pc' = "manifest"
               /\ UNCHANGED <<result, exitCode>>
          ELSE /\ \E left \in FailedWrite(publicDir[ico_name]) :
                     publicDir' = [publicDir EXCEPT ![ico_name] = left]
               /\ Raise
               /\ UNCHANGED <<created, appDir>>
    /\ UNCHANGED <<sourceExists, srcImg, idx, locals, openHandles>>

\* Lines 78-82: saved to PUBLIC_DIR only.
SaveIco ==
    /\ pc = "ico"
    /\ UNCHANGED prevResult
    /\ \E ok \in BOOLEAN :
          IF ok
          THEN /\ publicDir' = [publicDir EXCEPT ![ico_name] = IcoFile(ico_img)]
               /\ created' = Append(created, ico_name)
               /\ pc' = "manifest"
               /\ UNCHANGED <<result, exitCode>>
          ELSE /\ \E left \in FailedWrite(publicDir[ico_name]) :
                     publicDir' = [publicDir EXCEPT ![ico_name] = left]
               /\ Raise
               /\ UNCHANGED created
    /\ UNCHANGED <<sourceExists, srcImg, appDir, idx, locals, openHandles>>

\* Lines 108-109: open(manifest_path, 'w') empties the file and enters the
\* with block.
OpenManifest ==
    /\ pc = "manifest"
    /\ UNCHANGED prevResult
    /\ \E ok \in BOOLEAN :
          IF ok
          THEN /\ publicDir' = [publicDir EXCEPT ![manifest_name] = Truncated]
               /\ openHandles' = openHandles \cup {"manifest"}
               /\ pc' = "write"
               /\ UNCHANGED <<result, exitCode>>
          ELSE /\ Raise
               /\ UNCHANGED <<publicDir, openHandles>>
    /\ UNCHANGED <<sourceExists, srcImg, appDir, idx, locals, created>>

\* Lines 109-111: f.write and the end of the with block, which closes f
\* whether or not the write raised.
WriteManifest ==
    /\ pc = "write"
    /\ UNCHANGED prevResult
    /\ openHandles' = openHandles \ {"manifest"}
    /\ \E ok \in BOOLEAN :
          IF ok
          THEN /\ publicDir' = [publicDir EXCEPT
                                   ![manifest_name] = TextFile(manifest_content)]
               /\ created' = Append(created, manifest_name)
               /\ pc' = "return"
               /\ UNCHANGED <<result, exitCode>>
          ELSE /\ Raise
               /\ UNCHANGED <<publicDir, created>>
    /\ UNCHANGED <<sourceExists, srcImg, appDir, idx, locals>>

\* Lines 113-114
ReturnTrue ==
    /\ pc = "return"
    /\ UNCHANGED prevResult
    /\ result' = "True"
    /\ pc' = "returned"
    /\ UNCHANGED <<disk, idx, locals, exitCode, created, openHandles>>

\* Line 118: the call returned; its value is dropped and the script ends.
MainEnd ==
    /\ pc = "returned"
    /\ UNCHANGED prevResult
    /\ exitCode' = 0
    /\ pc' = "exited"
    /\ UNCHANGED <<disk, idx, locals, result, created, openHandles>>

\* Lines 119-123: the except clause prints the error and calls exit(1).
Handler ==
    /\ pc = "handler"
    /\ UNCHANGED prevResult
    /\ exitCode' = 1
    /\ pc' = "exited"
    /\ UNCHANGED <<disk, idx, locals, result, created, openHandles>>

\* Line 116: the script is invoked again; the directories are as the last
\* run left them, everything in memory is new.
Rerun ==
    /\ pc = "exited"
    /\ pc' = "start"
    /\ idx' = 1
    /\ img_original' = NoImage
    /\ img_rgb' = NoImage
    /\ img_rgba' = NoImage
    /\ ico_img' = NoImage
    /\ result' = "None"
    /\ exitCode' = -1
    /\ created' = <<>>
    /\ openHandles' = {}
    /\ prevResult' = result
    /\ UNCHANGED disk

Next ==
    \/ CheckExists
    \/ OpenImage
    \/ NormalizeImage
    \/ CompositeImage
    \/ CopyImage
    \/ SavePng
    \/ ResizeIco
    \/ SaveIco
    \/ OpenManifest
    \/ WriteManifest
    \/ ReturnTrue
    \/ MainEnd
    \/ Handler
    \/ Rerun

Spec == Init /\ [][Next]_vars

(***************************************************************************)
(* Properties.                                                             *)
(***************************************************************************)
IsPrefix(a, b) == Len(a) <= Len(b) /\ \A k \in 1..Len(a) : a[k] = b[k]

Range(q) == {q[k] : k \in 1..Len(q)}

\* The file a complete run writes at each name, from the source image alone.
ExpectedOutput(name) ==
    IF name = manifest_name THEN TextFile(manifest_content)
    ELSE IF name = ico_name THEN IcoFile(Resize(Normalize(srcImg), ico_size))
    ELSE LET k == CHOOSE j \in 1..Len(FAVICON_SIZES) : FAVICON_SIZES[j].name = name
         IN  PngFile(Resize(Composite(Normalize(srcImg)), FAVICON_SIZES[k].size))

\* The format section 6 of the specification declares for each output.
DeclaredFormat(name) ==
    IF name = manifest_name THEN "text"
    ELSE IF name = ico_name THEN "ICO" ELSE "PNG"

\* C1: when the script has exited, its exit code is 0 exactly when
\* generate_favicons succeeded: a missing source (it returned False) and a
\* raised exception both give a non-zero exit code.
C1_ExitCodeTellsFailure ==
    pc = "exited" => (exitCode = 0 <=> result = "True")

\* C2: with no source file, the run opens no image, writes no file (both
\* directories stay as they were at every step), reports nothing created,
\* returns False and never reaches the exception handler.
C2_MissingSourceDoesNothing ==
    /\ [](~sourceExists =>
            /\ pc \in {"start", "returned", "exited"}
            /\ pc \in {"returned", "exited"} => result = "False"
            /\ img_original = NoImage
            /\ openHandles = {}
            /\ created = <<>>)
    /\ [][~sourceExists => (publicDir' = publicDir /\ appDir' = appDir)]_vars

C2_Witness ==
    ~sourceExists /\ pc = "returned" /\ result = "False"

\* C3: when generate_favicons has returned True, the run has written exactly
\* the 7 named files, each present in the output directory in its declared
\* format; success is never reported with one of them unwritten.
C3_SuccessMeansSevenFiles ==
    result = "True" =>
        /\ Range(created) = OutputNames
        /\ Len(created) = 7
        /\ Cardinality(OutputNames) = 7
        /\ \A f \in OutputNames : publicDir[f].fmt = DeclaredFormat(f)

C3_Witness ==
    result = "True" /\ pc = "exited"

\* C4: the files the run has written are always a prefix of the fixed order
\* and stay on disk complete; a step changes no file but the one at the next
\* position of that order; once a step has failed the run writes nothing
\* more, never reports success, and exits with status 1.
C4_PrefixOrderStopAtFirstError ==
    /\ [](/\ IsPrefix(created, WriteOrder)
          /\ \A f \in Range(created) : publicDir[f].fmt = DeclaredFormat(f)
          /\ pc = "handler" => result # "True"
          /\ (pc = "exited" /\ exitCode = 1) => result # "True")
    /\ [][/\ \A k \in 1..Len(WriteOrder) :
                publicDir'[WriteOrder[k]] # publicDir[WriteOrder[k]]
                    => (k = Len(created) + 1 /\ pc \in {"png", "ico", "manifest", "write"})
          /\ pc = "handler" =>
                /\ pc' = "exited"
                /\ exitCode' = 1
                /\ publicDir' = publicDir
                /\ created' = created]_vars

C4_Witness ==
    /\ pc = "exited"
    /\ exitCode = 1
    /\ Len(created) = 3
    /\ publicDir[WriteOrder[4]] = Truncated

\* C5: when a run has succeeded, each of the 7 outputs holds exactly what
\* the source image determines, whatever the directory held when the run
\* started (nothing, files of an earlier generation, files a failed run cut
\* short, the files of a successful run); a second run with the same source
\* therefore leaves the files the first one left.
C5_RerunOverwritesAll ==
    (pc \in {"returned", "exited"} /\ result = "True") =>
        /\ \A f \in OutputNames : publicDir[f] = ExpectedOutput(f)

\* A second successful run over the files of a first one, same source.
C5_Witness ==
    /\ pc = "exited"
    /\ result = "True"
    /\ prevResult = "True"

\* C6: no step of any run changes APP_DIR, and after a successful run
\* favicon.ico is in the output directory.
C6_IcoOnlyInPublicDir ==
    /\ appDir = AppDirInit
    /\ appDir[ico_name] = Absent
    /\ result = "True" => publicDir[ico_name].fmt = "ICO"

C6_Witness ==
    /\ pc = "exited"
    /\ ico_name \in Range(created)
    /\ publicDir[ico_name].fmt = "ICO"

(***************************************************************************)
(* The manifest literal of section 6 of the specification, tokenised like  *)
(* manifest_content: it differs in writing each icon object on one line.   *)
(***************************************************************************)
IconInline(src, sizes) ==
    <<"    ", "{", "\"src\"", ":", " ", src, ",", " ",
      "\"sizes\"", ":", " ", sizes, ",", " ",
      "\"type\"", ":", " ", "\"image/png\"", "}">>

SpecManifest ==
    ManifestHead
        \o IconInline("\"/android-chrome-192x192.png\"", "\"192x192\"") \o <<",", NL>>
        \o IconInline("\"/android-chrome-512x512.png\"", "\"512x512\"") \o <<NL>>
        \o ManifestTail

IsJsonToken(t) == t \notin Whitespace

\* A text without the whitespace between its JSON tokens.
JsonTokens(text) == SelectSeq(text, IsJsonToken)

\* The values of the "src" members of a text, in order.
IconSrcs(text) ==
    LET t == JsonTokens(text)
        at == {k \in 1..(Len(t) - 2) : t[k] = "\"src\""}
    IN  [src |-> {t[k + 2] : k \in at}, count |-> Cardinality(at)]

\* C7 as stated: the manifest on disk is, byte for byte, the literal of
\* section 6.
C7_ByteExactSpecLiteral ==
    manifest_name \in Range(created) =>
        publicDir[manifest_name].text = SpecManifest

\* C7 as amended: the manifest on disk is the script's own literal for every
\* source image; it is the JSON document of section 6 (the same tokens once
\* whitespace between them is dropped) and names exactly two icons, the 192
\* and 512 android-chrome PNGs.
C7_ManifestFixedJson ==
    manifest_name \in Range(created) =>
        /\ publicDir[manifest_name] = TextFile(manifest_content)
        /\ JsonTokens(publicDir[manifest_name].text) = JsonTokens(SpecManifest)
        /\ IconSrcs(publicDir[manifest_name].text) =
              [src |-> {"\"/android-chrome-192x192.png\"",
                        "\"/android-chrome-512x512.png\""},
               count |-> 2]

C7_Witness ==
    /\ manifest_name \in Range(created)
    /\ srcImg.mode = "P"
    /\ publicDir[manifest_name].text # SpecManifest

\* C8: every PNG the run has written is size x size for its FAVICON_SIZES
\* entry and RGB, and the favicon.ico it has written is 32 x 32 and RGBA,
\* whatever the width and height of the source.
C8_OutputDimensions ==
    /\ \A k \in 1..Len(FAVICON_SIZES) :
          FAVICON_SIZES[k].name \in Range(created) =>
              LET f == publicDir[FAVICON_SIZES[k].name]
              IN  /\ f.fmt = "PNG"
                  /\ f.w = FAVICON_SIZES[k].size
                  /\ f.h = FAVICON_SIZES[k].size
                  /\ f.mode = "RGB"
                  /\ f.data.px = Composite(Normalize(srcImg)).px
    /\ ico_name \in Range(created) =>
          LET f == publicDir[ico_name]
          IN  /\ f.fmt = "ICO"
              /\ f.w = 32
              /\ f.h = 32
              /\ f.mode = "RGBA"
              /\ f.data.px = Normalize(srcImg).px
    /\ <<FAVICON_SIZES[1].size, FAVICON_SIZES[2].size, FAVICON_SIZES[3].size,
         FAVICON_SIZES[4].size, FAVICON_SIZES[5].size>> = <<16, 32, 180, 192, 512>>

\* A non-square source whose PNGs and icon are all written.
C8_Witness ==
    /\ ico_name \in Range(created)
    /\ srcImg.w # srcImg.h

Abs(x) == IF x < 0 THEN -x ELSE x

\* C9: once the opaque variant exists, the normalized source is RGBA, the
\* variant is RGB of the same width and height, and each of its pixels is
\* the source colour where alpha is 255, the background (6, 57, 64) where
\* alpha is 0, and otherwise the rounded linear blend of the two by alpha.
C9_OpaqueVariant ==
    img_rgb # NoImage =>
        /\ img_original.mode = "RGBA"
        /\ img_rgb.mode = "RGB"
        /\ img_rgb.w = img_original.w
        /\ img_rgb.h = img_original.h
        /\ Len(img_rgb.px) = Len(img_original.px)
        /\ \A k \in 1..Len(img_original.px) :
              LET s  == img_original.px[k]
                  o  == img_rgb.px[k]
                  a  == s[4]
                  bg == <<6, 57, 64>>
              IN  /\ a = 255 => o = <<s[1], s[2], s[3]>>
                  /\ a = 0 => o = bg
                  /\ \A c \in 1..3 :
                        /\ o[c] \in 0..255
                        /\ 2 * Abs(255 * o[c] - (s[c] * a + bg[c] * (255 - a)))
                              <= 255

\* A grayscale-with-alpha source with a partly transparent pixel.
C9_Witness ==
    /\ img_rgb # NoImage
    /\ srcImg.mode = "LA"
    /\ \E k \in 1..Len(img_original.px) : img_original.px[k][4] = 128

\* C10: when the script has exited, every file handle it opened has been
\* closed.
C10_AllHandlesReleased ==
    pc = "exited" => openHandles = {}

=============================================================================
